---- MODULE Spec2Model ----
(***************************************************************************)
(* CopySpark: three Genkit generation flows (ad copy, social media, SEO)   *)
(* and the dashboard page that calls them.                                 *)
(*                                                                         *)
(* A flow is ai.defineFlow({inputSchema, outputSchema}, async input =>     *)
(* { const {output} = await prompt(input); return output!; }).  Running a  *)
(* flow parses the input with inputSchema, runs the body (which renders    *)
(* the Handlebars template of the prompt and calls the model once), and    *)
(* parses what the body returns with outputSchema.  A failure at any of    *)
(* these steps rejects the promise the exported wrapper returns.           *)
(*                                                                         *)
(* JavaScript values are tagged records [t, v]; a prompt is the sequence   *)
(* of text pieces the template engine emits (line breaks are left out).    *)
(***************************************************************************)
EXTENDS Integers, Sequences, FiniteSets, TLC

(***************************************************************************)
(* Bounds of the model.                                                    *)
(***************************************************************************)
MaxCalls == 3        \* wrapper calls started in one behaviour
MaxSubmits == 2      \* presses of a submit button in one behaviour
MaxVariations == 2   \* longest array in a model reply
MaxNumber == 3       \* largest numberOfVariations tried
MaxSelect == 2       \* how many tones, each with a language, are tried

(***************************************************************************)
(* JavaScript values.                                                      *)
(***************************************************************************)
Str(s) == [t |-> "str", v |-> s]
Num(n) == [t |-> "num", v |-> n]
\* the number n + d/10 for n >= 0 and d in 1..9, which is no integer
Frac(n, d) == [t |-> "num", v |-> n, tenths |-> d]
IsInteger(x) == x.t = "num" /\ "tenths" \notin DOMAIN x
Arr(q) == [t |-> "arr", v |-> q]
Obj(r) == [t |-> "obj", v |-> r]
Undef == [t |-> "undef", v |-> "undefined"]
Null == [t |-> "null", v |-> "null"]
EmptyObj == Obj([k \in {} |-> Undef])

\* property access o.k (undefined when o is no object or has no such key)
Get(o, k) == IF o.t = "obj" /\ k \in DOMAIN o.v THEN o.v[k] ELSE Undef

RECURSIVE GetPath(_, _)
GetPath(o, path) ==
  IF path = <<>> THEN o ELSE GetPath(Get(o, Head(path)), Tail(path))

\* z.string(), z.number(), z.string().optional(), z.array(z.string())
ZString(x) == x.t = "str"
ZNumber(x) == x.t = "num"
ZOptionalString(x) == x.t = "undef" \/ ZString(x)
ZArrayOfString(x) ==
  /\ x.t = "arr"
  /\ \A i \in 1..Len(x.v) : ZString(x.v[i])

(***************************************************************************)
(* The schema pairs of the three flows.                                    *)
(***************************************************************************)
GenerateSocialMediaContentInputSchema(x) ==
  /\ x.t = "obj"
  /\ ZString(Get(x, "copy"))

GenerateSocialMediaContentOutputSchema(x) ==
  /\ x.t = "obj"
  /\ ZString(Get(x, "content"))
  /\ ZArrayOfString(Get(x, "hashtags"))

\* the input schema with targetKeyword declared as z.string(), not optional
OptimizeContentForSeoInputSchemaRequiredKeyword(x) ==
  /\ x.t = "obj"
  /\ ZString(Get(x, "content"))
  /\ ZString(Get(x, "targetKeyword"))

OptimizeContentForSeoInputSchema(x) ==
  /\ x.t = "obj"
  /\ ZString(Get(x, "content"))
  /\ ZOptionalString(Get(x, "targetKeyword"))

OptimizeContentForSeoOutputSchema(x) ==
  /\ x.t = "obj"
  /\ ZArrayOfString(Get(x, "keywords"))
  /\ Get(x, "metadata").t = "obj"
  /\ ZString(GetPath(x, <<"metadata", "title">>))
  /\ ZString(GetPath(x, <<"metadata", "description">>))

TargetAudienceSchema(x) ==
  /\ x.t = "obj"
  /\ ZString(Get(x, "ageRange"))
  /\ ZString(Get(x, "gender"))
  /\ ZString(Get(x, "location"))
  /\ ZString(Get(x, "interests"))

GenerateAdCopyVariationsInputSchema(x) ==
  /\ x.t = "obj"
  /\ ZString(Get(x, "productName"))
  /\ ZString(Get(x, "productDescription"))
  /\ TargetAudienceSchema(Get(x, "targetAudience"))
  /\ ZNumber(Get(x, "numberOfVariations"))

AdCopyVariationSchema(x) ==
  /\ x.t = "obj"
  /\ ZString(Get(x, "copy"))
  /\ ZString(Get(x, "explanation"))

GenerateAdCopyVariationsOutputSchema(x) ==
  /\ x.t = "obj"
  /\ Get(x, "adCopyVariations").t = "arr"
  /\ \A i \in 1..Len(Get(x, "adCopyVariations").v) :
       AdCopyVariationSchema(Get(x, "adCopyVariations").v[i])

Flows == {"adCopy", "socialMedia", "seo"}

inputSchema(flow, x) ==
  CASE flow = "adCopy" -> GenerateAdCopyVariationsInputSchema(x)
    [] flow = "socialMedia" -> GenerateSocialMediaContentInputSchema(x)
    [] flow = "seo" -> OptimizeContentForSeoInputSchema(x)

outputSchema(flow, x) ==
  CASE flow = "adCopy" -> GenerateAdCopyVariationsOutputSchema(x)
    [] flow = "socialMedia" -> GenerateSocialMediaContentOutputSchema(x)
    [] flow = "seo" -> OptimizeContentForSeoOutputSchema(x)

(***************************************************************************)
(* The prompt templates.  The template engine is Handlebars: the text      *)
(* between "{{" and "}}" is an expression, everything else is content that *)
(* is copied to the output as it stands.  A template is the sequence of    *)
(* its content pieces and expressions.                                     *)
(***************************************************************************)
Lit(s) == [k |-> "lit", s |-> s, path |-> <<>>]
Expr(marker, path) == [k |-> "expr", s |-> marker, path |-> path]

\* the template of the earlier version of the flow, whose target audience
\* was one string
adCopyTemplateFlatAudience ==
  << Lit("You are an expert copywriter specializing in creating engaging ad copy."),
     Lit("You will generate "),
     Expr("{{numberOfVariations}}", <<"numberOfVariations">>),
     Lit(" ad copy variations for the following product, tailored to the specified target audience."),
     Lit("Product Name: "),
     Expr("{{productName}}", <<"productName">>),
     Lit("Product Description: "),
     Expr("{{productDescription}}", <<"productDescription">>),
     Lit("Target Audience: "),
     Expr("{{targetAudience}}", <<"targetAudience">>),
     Lit("Each ad copy variation should be unique and highlight different aspects of the product to appeal to the target audience. Focus on brevity, compelling language, and a clear call to action.") >>

adCopyTemplate ==
  << Lit("You are a copywriting expert with 30 years of experience, specializing in creating engaging ad copy that converts by using timeless psychological frameworks."),
     Lit("You will generate "),
     Expr("{{numberOfVariations}}", <<"numberOfVariations">>),
     Lit(" ad copy variations for the following product, tailored to the specified target audience. You must use the AIDA or PAS framework for each variation."),
     Lit("Product Name: "),
     Expr("{{productName}}", <<"productName">>),
     Lit("Product Description: "),
     Expr("{{productDescription}}", <<"productDescription">>),
     Lit("Target Audience Details:"),
     Lit("- Age Range: "),
     Expr("{{targetAudience.ageRange}}", <<"targetAudience", "ageRange">>),
     Lit("- Gender: "),
     Expr("{{targetAudience.gender}}", <<"targetAudience", "gender">>),
     Lit("- Location: "),
     Expr("{{targetAudience.location}}", <<"targetAudience", "location">>),
     Lit("- Interests: "),
     Expr("{{targetAudience.interests}}", <<"targetAudience", "interests">>),
     Lit("---"),
     Lit("Psychological Frameworks to Use:"),
     Lit("1.  **AIDA (Attention, Interest, Desire, Action):** This is a funnel for your words."),
     Lit("    *   **Attention:** Start with a headline that grabs them by the collar. Use a bold statement, an intriguing question, or a surprising statistic."),
     Lit("    *   **Interest:** Keep them reading by providing valuable, relevant information. Talk about them and their problem."),
     Lit("    *   **Desire:** Paint a picture of a better future. Focus on the benefits, not just the features."),
     Lit("    *   **Action:** Tell them exactly what to do next with a clear, compelling call-to-action (CTA)."),
     Lit("2.  **PAS (Problem, Agitate, Solve):** This one is pure empathy."),
     Lit("    *   **Problem:** State the problem your audience is facing."),
     Lit("    *   **Agitate:** Pour a little salt in the wound. Describe the consequences of this problem to make the pain more real."),
     Lit("    *   **Solve:** Present your solution as the definitive relief to that pain."),
     Lit("---"),
     Lit("For each variation, you must provide:"),
     Lit("1.  **The Ad Copy**: A unique and compelling piece of copy based on either the AIDA or PAS framework. It should be brief, have a clear call to action, and resonate with the specified audience."),
     Lit("2.  **The Explanation**: A concise analysis of *why* the ad copy is engaging. Explain which framework (AIDA or PAS) was used and how it was applied to appeal to the target audience's specific demographics and interests."),
     Lit("Your output must be a JSON object containing an 'adCopyVariations' array. Each element in the array should be an object with 'copy' and 'explanation' fields.") >>

socialMediaTemplate ==
  << Lit("You are a social media manager and copywriting expert with 30 years of experience."),
     Lit("  You will generate social media content based on the provided copy, and suggest relevant hashtags to extend reach."),
     Lit("  Copy: "),
     Expr("{{{copy}}}", <<"copy">>),
     Lit("  Your output should be formatted as a JSON object.") >>

\* "{% if targetKeyword %}" and "{% endif %}" are not Handlebars
\* expressions (a Handlebars block is {{#if x}} ... {{/if}}): to the
\* template engine they are content.
seoTemplate ==
  << Lit("You are an SEO expert. Analyze the following content and suggest relevant keywords and metadata to improve its search engine ranking."),
     Lit("Content: "),
     Expr("{{{content}}}", <<"content">>),
     Lit("{% if targetKeyword %}"),
     Lit("Target Keyword: "),
     Expr("{{{targetKeyword}}}", <<"targetKeyword">>),
     Lit("{% endif %}"),
     Lit("Provide keywords that are highly relevant and have good search volume. The title should be concise, engaging, and include primary keywords. The description should accurately summarize the content and entice users to click through from search engine results."),
     Lit("Keywords: "),
     Lit("Metadata Title:"),
     Lit("Metadata Description:") >>

template(flow) ==
  CASE flow = "adCopy" -> adCopyTemplate
    [] flow = "socialMedia" -> socialMediaTemplate
    [] flow = "seo" -> seoTemplate

Digit(d) ==
  CASE d = 0 -> "0" [] d = 1 -> "1" [] d = 2 -> "2" [] d = 3 -> "3"
    [] d = 4 -> "4" [] d = 5 -> "5" [] d = 6 -> "6" [] d = 7 -> "7"
    [] d = 8 -> "8" [] d = 9 -> "9"

\* String(n) of an integer n
RECURSIVE NumToString(_)
NumToString(n) ==
  IF n < 0 THEN "-" \o NumToString(0 - n)
  ELSE IF n < 10 THEN Digit(n)
  ELSE NumToString(n \div 10) \o Digit(n % 10)

\* String(x) of a number x
NumberText(x) ==
  IF IsInteger(x) THEN NumToString(x.v)
  ELSE NumToString(x.v) \o "." \o Digit(x.tenths)

\* what a Handlebars expression emits for a value: nothing for undefined
\* and null, the string itself, the decimal form of a number
ExprText(x) ==
  CASE x.t = "str" -> x.v
    [] x.t = "num" -> NumberText(x)
    [] x.t \in {"undef", "null"} -> ""
    [] OTHER -> "[object Object]"

\* the prompt text of a template for an input record
Render(tpl, input) ==
  [ i \in 1..Len(tpl) |->
      IF tpl[i].k = "lit" THEN tpl[i].s
      ELSE ExprText(GetPath(input, tpl[i].path)) ]

(***************************************************************************)
(* Inputs a caller may pass to a flow wrapper and replies the model may    *)
(* give.  The wrappers are typed, but the types are erased at run time,    *)
(* so a caller can pass any value.                                         *)
(***************************************************************************)
Audience(a, g, l, i) ==
  Obj([ageRange |-> a, gender |-> g, location |-> l, interests |-> i])

AdInput(name, desc, aud, n) ==
  Obj([productName |-> name, productDescription |-> desc,
       targetAudience |-> aud, numberOfVariations |-> n])

GoodAudience == Audience(Str("25-35"), Str("All"), Str("USA"), Str("fitness"))

AdInputs ==
  { AdInput(Str("Smartwatch Pro"), Str("Tracks sleep & steps"), GoodAudience, Num(n)) :
      n \in 1..MaxNumber }
  \cup
  { AdInput(Str("Smartwatch Pro"), Str("Tracks sleep & steps"), GoodAudience, n) :
      n \in {Num(0), Num(-1), Frac(2, 5)} }
  \cup
  { AdInput(Str("Smartwatch Pro"), Str("Tracks sleep & steps"), Str("Tech enthusiasts"), Num(3)),
    AdInput(Undef, Str("Tracks sleep & steps"), GoodAudience, Num(3)),
    AdInput(Str("Smartwatch Pro"), Str("Tracks sleep & steps"), GoodAudience, Str("3")),
    AdInput(Str("Smartwatch Pro"), Str("Tracks sleep & steps"),
            Audience(Undef, Str("All"), Str("USA"), Str("fitness")), Num(3)),
    AdInput(Str("Smartwatch Pro"), Str("Tracks sleep & steps"),
            Audience(Str("25-35"), Str("All"), Str("USA"), Num(4)), Num(3)) }

SocialInputs ==
  { Obj([copy |-> Str("Announcing our new eco-friendly water bottle")]),
    Obj([copy |-> Num(7)]),
    EmptyObj }

SeoInputs ==
  { Obj([content |-> Str("Ten tips for better sleep")]),
    Obj([content |-> Str("Ten tips for better sleep"), targetKeyword |-> Undef]),
    Obj([content |-> Str("Ten tips for better sleep"), targetKeyword |-> Str("best AI copywriter")]),
    Obj([content |-> Str("Ten tips for better sleep"), targetKeyword |-> Num(5)]),
    Obj([targetKeyword |-> Str("best AI copywriter")]) }

Inputs(flow) ==
  CASE flow = "adCopy" -> AdInputs
    [] flow = "socialMedia" -> SocialInputs
    [] flow = "seo" -> SeoInputs

VariationA == Obj([copy |-> Str("Sleep better tonight."), explanation |-> Str("PAS")])
VariationB == Obj([copy |-> Str("Your wrist, upgraded."), explanation |-> Str("AIDA")])
VariationNoExplanation == Obj([copy |-> Str("Buy now.")])
VariationNoCopy == Obj([explanation |-> Str("AIDA")])

\* arrays of m entries, m <= MaxVariations: the entries a and b in turn,
\* the longest one also starting with b, and the shortest and the longest
\* also with bad as the last entry
Alternating(a, b, m) == [k \in 1..m |-> IF k % 2 = 1 THEN a ELSE b]

ReplyArrays(a, b, bad) ==
  { Alternating(a, b, m) : m \in 0..MaxVariations }
  \cup { Alternating(b, a, MaxVariations) }
  \cup { [Alternating(a, b, m) EXCEPT ![m] = bad] : m \in {1, MaxVariations} }

AdReplies ==
  { Obj([adCopyVariations |-> Arr(q)]) :
      q \in ReplyArrays(VariationA, VariationB, VariationNoExplanation) }
  \cup { Obj([adCopyVariations |-> Arr(<<VariationA, VariationNoCopy>>)]), EmptyObj, Null }

SocialReplies ==
  { Obj([content |-> Str("Introducing..."), hashtags |-> Arr(q)]) :
      q \in ReplyArrays(Str("#EcoFriendly"), Str("#Sustainability"), Num(1)) }
  \cup { Obj([content |-> Str("Introducing...")]), EmptyObj, Null }

GoodMetadata == Obj([title |-> Str("Sleep better"), description |-> Str("Ten tips")])

SeoReplies ==
  { Obj([keywords |-> Arr(q), metadata |-> GoodMetadata]) :
      q \in ReplyArrays(Str("sleep"), Str("tips"), Num(1)) }
  \cup { Obj([keywords |-> Arr(<<Str("sleep")>>), metadata |-> Obj([title |-> Str("Sleep better")])]),
         Obj([keywords |-> Arr(<<Str("sleep")>>)]),
         EmptyObj, Null }

Replies(flow) ==
  CASE flow = "adCopy" -> AdReplies
    [] flow = "socialMedia" -> SocialReplies
    [] flow = "seo" -> SeoReplies

(***************************************************************************)
(* State.                                                                  *)
(*   inv         the flow invocations: at most two run at a time           *)
(*   calls       number of wrapper calls started so far                    *)
(*   panelState  adCopyState, socialMediaState, seoState of DashboardPage  *)
(*   submitting  per form, the submit events whose validation is pending   *)
(*   toast       the toast shown last                                      *)
(*   clipboard   the text written to the clipboard last                    *)
(***************************************************************************)
VARIABLES inv, calls, panelState, submitting, toast, clipboard

vars == <<inv, calls, panelState, submitting, toast, clipboard>>

Invocations == {"i1", "i2"}

NoToast == [variant |-> "none", title |-> "", description |-> ""]

IdleInvocation ==
  [ pc |-> "idle", flow |-> "none", caller |-> "none", input |-> Undef,
    prompt |-> <<>>, modelCalls |-> 0, threw |-> FALSE, output |-> Undef,
    result |-> Undef, error |-> "none", steps |-> <<>>,
    values |-> Undef,    \* the form values of the submit handler that called
    superseded |-> FALSE ]  \* a later submission of the same panel has started

Init ==
  /\ inv = [i \in Invocations |-> IdleInvocation]
  /\ calls = 0
  /\ panelState = [p \in Flows |-> [loading |-> FALSE, result |-> Null]]
  /\ submitting = [p \in Flows |-> <<>>]
  /\ toast = NoToast
  /\ clipboard = Undef

\* the exported wrapper: return xxxFlow(input)
StartFlow(i, flow, caller, input) ==
  inv' = [inv EXCEPT ![i] =
            [IdleInvocation EXCEPT !.pc = "called", !.flow = flow,
                                   !.caller = caller, !.input = input]]

\* a caller other than the dashboard calls a wrapper
Call(i, flow, input) ==
  /\ inv[i].pc = "idle"
  /\ calls < MaxCalls
  /\ StartFlow(i, flow, "direct", input)
  /\ calls' = calls + 1
  /\ UNCHANGED <<panelState, submitting, toast, clipboard>>

\* a flow defined without inputSchema: the body runs on any input
ValidateInputSkipped(i) ==
  /\ inv[i].pc = "called"
  /\ inv' = [inv EXCEPT ![i].pc = "validated"]
  /\ UNCHANGED <<calls, panelState, submitting, toast, clipboard>>

\* defineFlow parses the input with inputSchema before it runs the body
ValidateInput(i) ==
  /\ inv[i].pc = "called"
  /\ IF inputSchema(inv[i].flow, inv[i].input)
     THEN inv' = [inv EXCEPT ![i].pc = "validated",
                             ![i].steps = Append(@, "validateInput")]
     ELSE inv' = [inv EXCEPT ![i].pc = "failed",
                             ![i].error = "InvalidInput",
                             ![i].steps = Append(@, "validateInput")]
  /\ UNCHANGED <<calls, panelState, submitting, toast, clipboard>>

\* a renderer with state of its own: every prompt starts with the number of
\* the request it is rendered for
RenderPromptNumbered(i) ==
  /\ inv[i].pc = "validated"
  /\ inv' = [inv EXCEPT ![i].pc = "rendered",
                        ![i].prompt = <<"Request ", NumToString(calls), ": ">>
                                        \o Render(template(inv[i].flow), inv[i].input),
                        ![i].steps = Append(@, "renderPrompt")]
  /\ UNCHANGED <<calls, panelState, submitting, toast, clipboard>>

\* the body: prompt(input) renders the template ...
RenderPrompt(i) ==
  /\ inv[i].pc = "validated"
  /\ inv' = [inv EXCEPT ![i].pc = "rendered",
                        ![i].prompt = Render(template(inv[i].flow), inv[i].input),
                        ![i].steps = Append(@, "renderPrompt")]
  /\ UNCHANGED <<calls, panelState, submitting, toast, clipboard>>

\* ... and sends it to the model; the body awaits the reply
InvokeModel(i) ==
  /\ inv[i].pc = "rendered"
  /\ inv' = [inv EXCEPT ![i].pc = "awaiting",
                        ![i].modelCalls = @ + 1,
                        ![i].steps = Append(@, "invokeModel")]
  /\ UNCHANGED <<calls, panelState, submitting, toast, clipboard>>

\* the model call settles with a reply: const {output} = await prompt(input)
ModelReplies(i) ==
  /\ inv[i].pc = "awaiting"
  /\ \E reply \in Replies(inv[i].flow) :
       inv' = [inv EXCEPT ![i].pc = "replied", ![i].output = reply]
  /\ UNCHANGED <<calls, panelState, submitting, toast, clipboard>>

\* a body that catches the failure of the model call and goes on with no
\* output
ModelFailsSwallowed(i) ==
  /\ inv[i].pc = "awaiting"
  /\ inv' = [inv EXCEPT ![i].pc = "replied", ![i].threw = TRUE,
                        ![i].output = Null]
  /\ UNCHANGED <<calls, panelState, submitting, toast, clipboard>>

\* a body that calls the model again when the call has failed
ModelFailsRetried(i) ==
  /\ inv[i].pc = "awaiting"
  /\ inv' = [inv EXCEPT ![i].pc = "rendered"]
  /\ UNCHANGED <<calls, panelState, submitting, toast, clipboard>>

\* a body that catches the failure of the model call and then awaits a
\* promise nothing resolves
ModelFailsHangs(i) ==
  /\ inv[i].pc = "awaiting"
  /\ inv' = [inv EXCEPT ![i].pc = "hung", ![i].threw = TRUE]
  /\ UNCHANGED <<calls, panelState, submitting, toast, clipboard>>

\* the model call throws (transport failure, timeout): the await rethrows
\* and the body has no catch
ModelFails(i) ==
  /\ inv[i].pc = "awaiting"
  /\ inv' = [inv EXCEPT ![i].pc = "failed", ![i].threw = TRUE,
                        ![i].error = "InvocationError"]
  /\ UNCHANGED <<calls, panelState, submitting, toast, clipboard>>

\* a flow defined without outputSchema: what the body returns is the result
ValidateOutputSkipped(i) ==
  /\ inv[i].pc = "replied"
  /\ inv' = [inv EXCEPT ![i].pc = "returned",
                        ![i].result = inv[i].output,
                        ![i].steps = @ \o <<"validateOutput", "return">>]
  /\ UNCHANGED <<calls, panelState, submitting, toast, clipboard>>

Reversed(q) == [k \in 1..Len(q) |-> q[Len(q) + 1 - k]]

\* the name of the array field of a flow's output record
ArrayField(flow) ==
  CASE flow = "adCopy" -> "adCopyVariations"
    [] flow = "socialMedia" -> "hashtags"
    [] flow = "seo" -> "keywords"

\* a flow that rebuilds the record it returns and collects the entries of
\* the array from the last to the first
ValidateOutputReordered(i) ==
  /\ inv[i].pc = "replied"
  /\ IF outputSchema(inv[i].flow, inv[i].output)
     THEN inv' = [inv EXCEPT ![i].pc = "returned",
                             ![i].result =
                               LET f == ArrayField(inv[i].flow)
                               IN  Obj([inv[i].output.v EXCEPT
                                          ![f] = Arr(Reversed(inv[i].output.v[f].v))]),
                             ![i].steps = @ \o <<"validateOutput", "return">>]
     ELSE inv' = [inv EXCEPT ![i].pc = "failed",
                             ![i].error = "InvalidModelOutput",
                             ![i].steps = Append(@, "validateOutput")]
  /\ UNCHANGED <<calls, panelState, submitting, toast, clipboard>>

\* a flow that also compares the number of entries of an ad-copy reply with
\* the numberOfVariations of its input
ValidateOutputCounted(i) ==
  /\ inv[i].pc = "replied"
  /\ IF /\ outputSchema(inv[i].flow, inv[i].output)
        /\ inv[i].flow = "adCopy" =>
             Len(inv[i].output.v.adCopyVariations.v) = inv[i].input.v.numberOfVariations.v
     THEN inv' = [inv EXCEPT ![i].pc = "returned",
                             ![i].result = inv[i].output,
                             ![i].steps = @ \o <<"validateOutput", "return">>]
     ELSE inv' = [inv EXCEPT ![i].pc = "failed",
                             ![i].error = "InvalidModelOutput",
                             ![i].steps = Append(@, "validateOutput")]
  /\ UNCHANGED <<calls, panelState, submitting, toast, clipboard>>

\* a flow that keeps the reply of the prompt in a variable of the module,
\* shared by all invocations: an invocation returns the reply most recently
\* stored there, which is that of another invocation of the flow when one
\* has replied in the meantime
ValidateOutputShared(i) ==
  LET others == { j \in Invocations \ {i} :
                    inv[j].flow = inv[i].flow /\ inv[j].pc = "replied" }
      latest == IF others = {} THEN inv[i].output
                ELSE inv[CHOOSE j \in others : TRUE].output
  IN  /\ inv[i].pc = "replied"
      /\ IF outputSchema(inv[i].flow, latest)
         THEN inv' = [inv EXCEPT ![i].pc = "returned",
                                 ![i].result = latest,
                                 ![i].steps = @ \o <<"validateOutput", "return">>]
         ELSE inv' = [inv EXCEPT ![i].pc = "failed",
                                 ![i].error = "InvalidModelOutput",
                                 ![i].steps = Append(@, "validateOutput")]
      /\ UNCHANGED <<calls, panelState, submitting, toast, clipboard>>

\* return output!  (the assertion is erased at run time); defineFlow parses
\* the returned value with outputSchema before the promise resolves
ValidateOutput(i) ==
  /\ inv[i].pc = "replied"
  /\ IF outputSchema(inv[i].flow, inv[i].output)
     THEN inv' = [inv EXCEPT ![i].pc = "returned",
                             ![i].result = inv[i].output,
                             ![i].steps = @ \o <<"validateOutput", "return">>]
     ELSE inv' = [inv EXCEPT ![i].pc = "failed",
                             ![i].error = "InvalidModelOutput",
                             ![i].steps = Append(@, "validateOutput")]
  /\ UNCHANGED <<calls, panelState, submitting, toast, clipboard>>

\* the direct caller has received the result or the failure
Release(i) ==
  /\ inv[i].pc \in {"returned", "failed"}
  /\ inv[i].caller = "direct"
  /\ inv' = [inv EXCEPT ![i] = IdleInvocation]
  /\ UNCHANGED <<calls, panelState, submitting, toast, clipboard>>

FlowStep(i) ==
  \/ ValidateInput(i)
  \/ RenderPrompt(i)
  \/ InvokeModel(i)
  \/ ModelReplies(i)
  \/ ModelFails(i)
  \/ ValidateOutput(i)

(***************************************************************************)
(* The dashboard page: three forms, each with a submit handler.            *)
(***************************************************************************)
TONES == << "Professional", "Witty", "Bold", "Casual", "Informative",
            "Sarcastic", "Friendly", "Luxury" >>
LANGUAGES == << "English", "Spanish", "French", "German", "Mandarin",
                "Japanese", "Portuguese" >>

NaN == [t |-> "nan", v |-> "NaN"]

\* z.coerce.number(): Number(x)
CoerceNumber(x) ==
  IF x.t = "num" THEN x
  ELSE IF x.t = "str" /\ \E n \in 0..9 : Digit(n) = x.v
       THEN Num(CHOOSE n \in 0..9 : Digit(n) = x.v)
  ELSE IF x.t = "str" /\ \E n \in 0..9, d \in 1..9 : Digit(n) \o "." \o Digit(d) = x.v
       THEN LET nd == CHOOSE nd \in (0..9) \X (1..9) :
                        Digit(nd[1]) \o "." \o Digit(nd[2]) = x.v
            IN  Frac(nd[1], nd[2])
       ELSE NaN

\* z.number().min(lo).max(hi) for integers lo <= hi
ZNumberMinMax(x, lo, hi) ==
  /\ ZNumber(x)
  /\ x.v >= lo
  /\ IF IsInteger(x) THEN x.v <= hi ELSE x.v < hi

\* z.string().min(n)
ZStringMin(x, n) == ZString(x) /\ Len(x.v) >= n

adCopySchema(values) ==
  /\ ZStringMin(Get(values, "productName"), 2)
  /\ ZStringMin(Get(values, "productDescription"), 10)
  /\ ZStringMin(Get(values, "targetAudience"), 2)
  /\ LET n == CoerceNumber(Get(values, "numberOfVariations"))
     IN  ZNumberMinMax(n, 1, 5)
  /\ ZString(Get(values, "tone"))
  /\ ZString(Get(values, "language"))

socialMediaSchema(values) ==
  /\ ZStringMin(Get(values, "copy"), 10)
  /\ ZString(Get(values, "tone"))
  /\ ZString(Get(values, "language"))

seoSchema(values) ==
  /\ ZStringMin(Get(values, "content"), 10)
  /\ ZOptionalString(Get(values, "targetKeyword"))

formSchema(p, values) ==
  CASE p = "adCopy" -> adCopySchema(values)
    [] p = "socialMedia" -> socialMediaSchema(values)
    [] p = "seo" -> seoSchema(values)

\* what the user may have entered when the submit button is pressed
AdCopyForm(name, n, t, l) ==
  Obj([productName |-> Str(name),
       productDescription |-> Str("Tracks sleep & steps"),
       targetAudience |-> Str("Tech enthusiasts"),
       numberOfVariations |-> n,
       tone |-> Str(TONES[t]), language |-> Str(LANGUAGES[l])])

AdCopyForms ==
  { AdCopyForm("Smartwatch Pro", Num(3), t, t) : t \in 1..MaxSelect }
  \cup { AdCopyForm("", Num(3), 1, 1) }
  \cup { AdCopyForm("Smartwatch Pro", Str(n), 1, 1) : n \in {"0", "6", "2.5"} }

SocialMediaForm(c, t, l) ==
  Obj([copy |-> Str(c), tone |-> Str(TONES[t]), language |-> Str(LANGUAGES[l])])

SocialMediaForms ==
  { SocialMediaForm("Announcing our new eco-friendly water bottle", t, t) :
      t \in 1..MaxSelect }
  \cup { SocialMediaForm("", 1, 1) }

SeoForms ==
  { Obj([content |-> Str("Ten tips for better sleep"), targetKeyword |-> Str(k)]) :
      k \in {"", "best AI copywriter"} }
  \cup { Obj([content |-> Str(""), targetKeyword |-> Str("")]) }

Forms(p) ==
  CASE p = "adCopy" -> AdCopyForms
    [] p = "socialMedia" -> SocialMediaForms
    [] p = "seo" -> SeoForms

\* the argument the submit handler passes to the flow wrapper
AdCopyPayload(values) ==
  Obj([ productName |-> Get(values, "productName"),
        productDescription |->
          Str("Style: " \o Get(values, "tone").v \o ". Language: "
              \o Get(values, "language").v \o ". Description: "
              \o Get(values, "productDescription").v),
        targetAudience |-> Get(values, "targetAudience"),
        numberOfVariations |-> CoerceNumber(Get(values, "numberOfVariations")),
        tone |-> Get(values, "tone"),
        language |-> Get(values, "language") ])

SocialMediaPayload(values) ==
  Obj([ copy |->
          Str("Tone: " \o Get(values, "tone").v \o ". Language: "
              \o Get(values, "language").v \o ". Content: "
              \o Get(values, "copy").v) ])

SeoPayload(values) == values

Payload(p, values) ==
  CASE p = "adCopy" -> AdCopyPayload(values)
    [] p = "socialMedia" -> SocialMediaPayload(values)
    [] p = "seo" -> SeoPayload(values)

FailureToast(p) ==
  [ variant |-> "destructive", title |-> "Error",
    description |->
      CASE p = "adCopy" -> "Failed to generate ad copy. Please try again."
        [] p = "socialMedia" -> "Failed to generate social media post. Please try again."
        [] p = "seo" -> "Failed to optimize content. Please try again." ]

\* the submit button is pressed: it is disabled while the panel is loading;
\* form.handleSubmit validates the form values asynchronously
ClickSubmit(p, values) ==
  /\ ~panelState[p].loading
  /\ calls < MaxSubmits
  /\ submitting' = [submitting EXCEPT ![p] = Append(@, values)]
  /\ calls' = calls + 1
  /\ UNCHANGED <<inv, panelState, toast, clipboard>>

\* the validation has failed: the handler is not called
RejectForm(p) ==
  /\ submitting[p] # <<>>
  /\ ~formSchema(p, Head(submitting[p]))
  /\ submitting' = [submitting EXCEPT ![p] = Tail(@)]
  /\ UNCHANGED <<inv, calls, panelState, toast, clipboard>>

\* the slot a new call of a submit handler takes: the first one that is idle
\* (which slot holds a call makes no difference to the call)
FreeSlot ==
  IF inv["i1"].pc = "idle" THEN "i1"
  ELSE IF inv["i2"].pc = "idle" THEN "i2" ELSE "none"

\* a handler that sets only the loading flag and leaves the result of the
\* previous submission in the panel: setState(s => ({...s, loading: true}))
OnSubmitKeepsResult(p, i) ==
  /\ submitting[p] # <<>>
  /\ formSchema(p, Head(submitting[p]))
  /\ i = FreeSlot
  /\ submitting' = [submitting EXCEPT ![p] = Tail(@)]
  /\ panelState' = [panelState EXCEPT ![p].loading = TRUE]
  /\ inv' = [j \in Invocations |->
               IF j = i
               THEN [IdleInvocation EXCEPT !.pc = "called", !.flow = p,
                                           !.caller = "dashboard",
                                           !.input = Payload(p, Head(submitting[p])),
                                           !.values = Head(submitting[p])]
               ELSE IF inv[j].caller = "dashboard" /\ inv[j].flow = p
                    THEN [inv[j] EXCEPT !.superseded = TRUE]
                    ELSE inv[j]]
  /\ UNCHANGED <<calls, toast, clipboard>>

\* onAdCopySubmit, onSocialMediaSubmit, onSeoSubmit up to the await
OnSubmit(p, i) ==
  /\ submitting[p] # <<>>
  /\ formSchema(p, Head(submitting[p]))
  /\ i = FreeSlot
  /\ submitting' = [submitting EXCEPT ![p] = Tail(@)]
  /\ panelState' = [panelState EXCEPT ![p] = [loading |-> TRUE, result |-> Null]]
  /\ inv' = [j \in Invocations |->
               IF j = i
               THEN [IdleInvocation EXCEPT !.pc = "called", !.flow = p,
                                           !.caller = "dashboard",
                                           !.input = Payload(p, Head(submitting[p])),
                                           !.values = Head(submitting[p])]
               ELSE IF inv[j].caller = "dashboard" /\ inv[j].flow = p
                    THEN [inv[j] EXCEPT !.superseded = TRUE]
                    ELSE inv[j]]
  /\ UNCHANGED <<calls, toast, clipboard>>

\* the submit handler after the await: the wrapper has returned a result
OnSubmitResult(i) ==
  /\ inv[i].caller = "dashboard"
  /\ inv[i].pc = "returned"
  /\ panelState' = [panelState EXCEPT ![inv[i].flow] =
                      [loading |-> FALSE, result |-> inv[i].result]]
  /\ inv' = [inv EXCEPT ![i] = IdleInvocation]
  /\ UNCHANGED <<calls, submitting, toast, clipboard>>

\* a catch block that shows the toast and leaves the panel state alone
OnSubmitErrorKeepsLoading(i) ==
  /\ inv[i].caller = "dashboard"
  /\ inv[i].pc = "failed"
  /\ toast' = FailureToast(inv[i].flow)
  /\ inv' = [inv EXCEPT ![i] = IdleInvocation]
  /\ UNCHANGED <<calls, submitting, panelState, clipboard>>

\* a dashboard that keeps the three panels in one state object, which the
\* catch block resets as a whole
OnSubmitErrorResetsPanels(i) ==
  /\ inv[i].caller = "dashboard"
  /\ inv[i].pc = "failed"
  /\ toast' = FailureToast(inv[i].flow)
  /\ panelState' = [p \in Flows |-> [loading |-> FALSE, result |-> Null]]
  /\ inv' = [inv EXCEPT ![i] = IdleInvocation]
  /\ UNCHANGED <<calls, submitting, clipboard>>

\* the submit handler's catch block
OnSubmitError(i) ==
  /\ inv[i].caller = "dashboard"
  /\ inv[i].pc = "failed"
  /\ toast' = FailureToast(inv[i].flow)
  /\ panelState' = [panelState EXCEPT ![inv[i].flow] =
                      [loading |-> FALSE, result |-> Null]]
  /\ inv' = [inv EXCEPT ![i] = IdleInvocation]
  /\ UNCHANGED <<calls, submitting, clipboard>>

Next ==
  \E i \in Invocations :
    \/ \E flow \in Flows : \E input \in Inputs(flow) : Call(i, flow, input)
    \/ FlowStep(i)
    \/ Release(i)

Spec == Init /\ [][Next]_vars

\* The steps of a flow are continuations on the event loop, which runs every
\* continuation that is ready; the model invocation is taken to settle.
SpecLive == Init /\ [][Next]_vars /\ \A i \in Invocations : WF_vars(FlowStep(i))

NextDashboard ==
  \/ \E p \in Flows : \E values \in Forms(p) : ClickSubmit(p, values)
  \/ \E p \in Flows : RejectForm(p)
  \/ \E p \in Flows : \E i \in Invocations : OnSubmit(p, i)
  \/ \E i \in Invocations : FlowStep(i)
  \/ \E i \in Invocations : OnSubmitResult(i)
  \/ \E i \in Invocations : OnSubmitError(i)

SpecDashboard == Init /\ [][NextDashboard]_vars

\* The part of a submit handler after its await is a continuation on the
\* event loop: it runs once the promise of the flow call has settled.
SpecDashboardLive ==
  /\ Init /\ [][NextDashboard]_vars
  /\ \A i \in Invocations : WF_vars(OnSubmitResult(i)) /\ WF_vars(OnSubmitError(i))

(***************************************************************************)
(* What DashboardPage renders from its state, and the copy buttons.        *)
(***************************************************************************)
\* a string child is shown as text; React throws on an object child
ReactChild(x) ==
  IF x.t = "str" THEN x.v ELSE "Error: Objects are not valid as a React child"

\* navigator.clipboard.writeText(x) writes String(x)
DOMString(x) ==
  CASE x.t = "str" -> x.v
    [] x.t = "num" -> NumberText(x)
    [] x.t = "undef" -> "undefined"
    [] x.t = "null" -> "null"
    [] OTHER -> "[object Object]"

CopiedToast(type) ==
  [ variant |-> "default", title |-> type \o " copied!",
    description |-> "The content has been copied to your clipboard." ]

\* the panel shows its result: {!state.loading && state.result && ...}
ShowsResult(p) == ~panelState[p].loading /\ panelState[p].result # Null

\* adCopyState.result.adCopyVariations
AdCopyVariations == Get(panelState["adCopy"].result, "adCopyVariations").v

\* <p className="text-sm">{variation}</p>
VariationShown(variation) == ReactChild(variation)

handleCopyToClipboard(text, type) ==
  /\ clipboard' = Str(DOMString(text))
  /\ toast' = CopiedToast(type)

\* the copy button of variation k: handleCopyToClipboard(variation, 'Variation')
CopyVariation(k) ==
  /\ ShowsResult("adCopy")
  /\ k \in 1..Len(AdCopyVariations)
  /\ handleCopyToClipboard(AdCopyVariations[k], "Variation")
  /\ UNCHANGED <<inv, calls, panelState, submitting>>

\* handleCopyToClipboard(socialMediaState.result!.content, 'Post')
CopyPost ==
  /\ ShowsResult("socialMedia")
  /\ handleCopyToClipboard(Get(panelState["socialMedia"].result, "content"), "Post")
  /\ UNCHANGED <<inv, calls, panelState, submitting>>

\* the values of AdCopyState, SocialMediaState and SeoState: loading with
\* no result, or not loading with no result or with an output record of
\* the flow
PanelStates(p) ==
  { [loading |-> TRUE, result |-> Null], [loading |-> FALSE, result |-> Null] }
  \cup { [loading |-> FALSE, result |-> r] :
           r \in { x \in Replies(p) : outputSchema(p, x) } }

InitRender ==
  /\ inv = [i \in Invocations |-> IdleInvocation]
  /\ calls = 0
  /\ panelState \in [Flows -> UNION { PanelStates(p) : p \in Flows }]
  /\ \A p \in Flows : panelState[p] \in PanelStates(p)
  /\ submitting = [p \in Flows |-> <<>>]
  /\ toast = NoToast
  /\ clipboard = Undef

NextRender ==
  \/ \E k \in 1..MaxVariations : CopyVariation(k)
  \/ CopyPost

SpecRender == InitRender /\ [][NextRender]_vars

(***************************************************************************)
(* Properties.                                                             *)
(***************************************************************************)
Range(q) == { q[k] : k \in 1..Len(q) }

IsPrefix(q, r) == Len(q) <= Len(r) /\ \A k \in 1..Len(q) : q[k] = r[k]

Started(i) == inv[i].pc # "idle"

InputValid(i) == inputSchema(inv[i].flow, inv[i].input)

OutputValid(i) == outputSchema(inv[i].flow, inv[i].output)

\* C1: an invocation whose input fails the flow's input schema signals
\* InvalidInput and never invokes the model.
C1_InvalidInputNoModelCall ==
  \A i \in Invocations :
    (Started(i) /\ ~InputValid(i)) =>
      /\ inv[i].modelCalls = 0
      /\ inv[i].pc \in {"called", "failed"}
      /\ inv[i].pc = "failed" => inv[i].error = "InvalidInput"

C1_Witness ==
  \E i \in Invocations :
    /\ inv[i].pc = "failed"
    /\ ~InputValid(i)
    /\ inv[i].error = "InvalidInput"
    /\ inv[i].modelCalls = 0

\* C2: every value a wrapper returns validates against the flow's output
\* schema; a reply that does not conform (also {} and null) makes the
\* wrapper signal InvalidModelOutput and return no result.
C2_ReturnedValueIsValid ==
  \A i \in Invocations :
    /\ inv[i].pc = "returned" => outputSchema(inv[i].flow, inv[i].result)
    /\ (inv[i].pc \in {"returned", "failed"} /\ inv[i].modelCalls > 0
          /\ ~inv[i].threw /\ ~OutputValid(i)) =>
         /\ inv[i].pc = "failed"
         /\ inv[i].error = "InvalidModelOutput"
         /\ inv[i].result = Undef

C2_Witness ==
  \E i \in Invocations :
    /\ inv[i].pc = "failed"
    /\ inv[i].error = "InvalidModelOutput"
    /\ inv[i].flow = "seo"
    /\ inv[i].output \notin {Null, EmptyObj}
    /\ Get(inv[i].output, "metadata") = GoodMetadata

StepOrder ==
  << "validateInput", "renderPrompt", "invokeModel", "validateOutput", "return" >>

\* C4: the steps of an invocation happen in the order input validation,
\* prompt rendering, model invocation, output validation, return: the model
\* is invoked only after the input was found valid and the prompt was
\* rendered, and a result is returned only after the reply was validated.
C4_StepsInOrder ==
  \A i \in Invocations :
    /\ IsPrefix(inv[i].steps, StepOrder)
    /\ inv[i].modelCalls > 0 =>
         /\ InputValid(i)
         /\ SubSeq(inv[i].steps, 1, 3) = SubSeq(StepOrder, 1, 3)
         /\ inv[i].prompt # <<>>
    /\ inv[i].pc = "returned" => (inv[i].steps = StepOrder /\ OutputValid(i))

C4_Witness ==
  \E i \in Invocations : inv[i].pc = "returned" /\ inv[i].steps = StepOrder

Rendered(i) == inv[i].prompt # <<>>

\* C5: the SEO prompt has no "Target Keyword:" section when targetKeyword
\* is absent, and has "Target Keyword:" followed by the keyword when it is
\* present.
C5_TargetKeywordSection ==
  \A i \in Invocations :
    (inv[i].flow = "seo" /\ Rendered(i)) =>
      LET kw == Get(inv[i].input, "targetKeyword")
          pr == inv[i].prompt
      IN  /\ kw.t = "undef" => "Target Keyword: " \notin Range(pr)
          /\ kw.t = "str" =>
               \E k \in 1..(Len(pr) - 1) :
                 pr[k] = "Target Keyword: " /\ pr[k + 1] = kw.v

\* text that is template syntax: a Handlebars expression or a block tag
TemplateSyntax(text) ==
  /\ Len(text) >= 2
  /\ SubSeq(text, 1, 2) \in {"{{", "{%"}

\* C6: the prompt rendered from a valid input contains no unresolved
\* template syntax, neither a placeholder nor a conditional-block marker.
C6_NoUnresolvedTemplateSyntax ==
  \A i \in Invocations :
    Rendered(i) => \A k \in 1..Len(inv[i].prompt) : ~TemplateSyntax(inv[i].prompt[k])

\* the fields of the input records: path and whether the field is required
Fields(flow) ==
  CASE flow = "adCopy" ->
         { <<"numberOfVariations">>, <<"productName">>, <<"productDescription">>,
           <<"targetAudience", "ageRange">>, <<"targetAudience", "gender">>,
           <<"targetAudience", "location">>, <<"targetAudience", "interests">> }
    [] flow = "socialMedia" -> { <<"copy">> }
    [] flow = "seo" -> { <<"content">>, <<"targetKeyword">> }

\* the literal value of a field: the string, or the numeral of a number
Literal(x) == IF x.t = "num" THEN NumberText(x) ELSE x.v

\* C7: the prompt rendered from a valid input contains the literal value of
\* every required field and of every optional field that is present.
C7_PromptContainsFieldValues ==
  \A i \in Invocations :
    (Rendered(i) /\ InputValid(i)) =>
      \A path \in Fields(inv[i].flow) :
        LET x == GetPath(inv[i].input, path)
        IN  x.t # "undef" => Literal(x) \in Range(inv[i].prompt)

C7_Witness ==
  \E i, j \in Invocations :
    /\ inv[i].flow = "adCopy" /\ Rendered(i)
    /\ "fitness" \in Range(inv[i].prompt)
    /\ NumToString(MaxNumber) \in Range(inv[i].prompt)
    /\ inv[j].flow = "seo" /\ Rendered(j)
    /\ "best AI copywriter" \in Range(inv[j].prompt)

\* C8: a payload the dashboard forwards to a wrapper after its form
\* validation has passed matches the wrapper's input schema and is never
\* rejected as InvalidInput.
C8_DashboardPayloadIsValidInput ==
  \A i \in Invocations :
    inv[i].caller = "dashboard" =>
      (InputValid(i) /\ inv[i].error # "InvalidInput")

C10_NoRetry ==
  \A i \in Invocations :
    /\ inv[i].modelCalls <= 1
    /\ (inv[i].pc = "failed" /\ inv[i].error \in {"InvocationError", "InvalidModelOutput"})
         => inv[i].modelCalls = 1

C10_Witness ==
  \E i, j \in Invocations :
    /\ inv[i].pc = "failed" /\ inv[i].error = "InvocationError" /\ inv[i].modelCalls = 1
    /\ inv[j].pc = "failed" /\ inv[j].error = "InvalidModelOutput" /\ inv[j].modelCalls = 1

\* C11: for a model reply that conforms to the output schema the wrapper
\* returns exactly that record: the same field values, and the entries of
\* hashtags, keywords and adCopyVariations in the order of the reply.
C11_ConformingReplyReturnedUnchanged ==
  \A i \in Invocations :
    (inv[i].modelCalls > 0 /\ ~inv[i].threw /\ inv[i].pc \in {"returned", "failed"}
       /\ OutputValid(i)) =>
      /\ inv[i].pc = "returned"
      /\ inv[i].result = inv[i].output
      /\ LET f == ArrayField(inv[i].flow)
         IN  \A k \in 1..Len(Get(inv[i].output, f).v) :
               Get(inv[i].result, f).v[k] = Get(inv[i].output, f).v[k]

C11_Witness ==
  \E i \in Invocations :
    /\ inv[i].pc = "returned"
    /\ inv[i].flow = "socialMedia"
    /\ inv[i].input = Obj([copy |-> Str("Announcing our new eco-friendly water bottle")])
    /\ inv[i].result =
         Obj([content |-> Str("Introducing..."),
              hashtags |-> Arr(<<Str("#EcoFriendly"), Str("#Sustainability")>>)])

\* the entries of the adCopyVariations array of an ad-copy reply, or no
\* entries when the reply has no such array
ReplyEntries(i) ==
  IF Get(inv[i].output, "adCopyVariations").t = "arr"
  THEN Get(inv[i].output, "adCopyVariations").v ELSE <<>>

\* C12: the validation of an ad-copy reply does not look at the requested
\* numberOfVariations: a reply whose adCopyVariations is an array is accepted
\* exactly when every entry has a string copy and a string explanation,
\* however many entries it has; an entry lacking either makes it invalid.
C12_OutputValidationIgnoresCount ==
  \A i \in Invocations :
    (inv[i].flow = "adCopy" /\ inv[i].modelCalls > 0 /\ ~inv[i].threw
       /\ inv[i].pc \in {"returned", "failed"}
       /\ Get(inv[i].output, "adCopyVariations").t = "arr") =>
      /\ (inv[i].pc = "returned") <=>
           \A k \in 1..Len(ReplyEntries(i)) :
             /\ Get(ReplyEntries(i)[k], "copy").t = "str"
             /\ Get(ReplyEntries(i)[k], "explanation").t = "str"
      /\ inv[i].pc = "failed" => inv[i].error = "InvalidModelOutput"

\* three variations requested, two returned and accepted
C12_Witness ==
  \E i \in Invocations :
    /\ inv[i].flow = "adCopy"
    /\ inv[i].pc = "returned"
    /\ inv[i].input.v.numberOfVariations = Num(3)
    /\ Len(ReplyEntries(i)) = 2

\* what an invocation sends and returns, as a function of its own flow,
\* input and model reply
OwnOutcome(i) ==
  /\ Rendered(i) => inv[i].prompt = Render(template(inv[i].flow), inv[i].input)
  /\ inv[i].pc = "returned" =>
       /\ InputValid(i) /\ ~inv[i].threw /\ OutputValid(i)
       /\ inv[i].result = inv[i].output
  /\ inv[i].pc = "failed" =>
       inv[i].error = IF ~InputValid(i) THEN "InvalidInput"
                      ELSE IF inv[i].threw THEN "InvocationError"
                      ELSE "InvalidModelOutput"

\* C13: concurrent invocations are independent under every interleaving: a
\* step of one invocation leaves every other invocation as it was, and the
\* prompt sent and the value or failure returned by an invocation are
\* determined by its own input and its own model reply.
C13_InvocationsIndependent ==
  [][\A i \in Invocations :
       inv'[i] # inv[i] =>
         /\ \A j \in Invocations \ {i} : inv'[j] = inv[j]
         /\ OwnOutcome(i)']_vars

\* two invocations of one flow with the same input, in flight together, each
\* returned with its own, different reply
C13_Witness ==
  /\ inv["i1"].pc = "returned" /\ inv["i2"].pc = "returned"
  /\ inv["i1"].flow = inv["i2"].flow
  /\ inv["i1"].input = inv["i2"].input
  /\ inv["i1"].output # inv["i2"].output
  /\ inv["i1"].result = inv["i1"].output
  /\ inv["i2"].result = inv["i2"].output

\* an ad-copy input whose fields other than numberOfVariations are valid
OtherAdFieldsValid(x) ==
  /\ ZString(Get(x, "productName"))
  /\ ZString(Get(x, "productDescription"))
  /\ TargetAudienceSchema(Get(x, "targetAudience"))

\* C14: input validation of the ad-copy flow accepts numberOfVariations
\* exactly when it is a non-negative integer: zero and positive integers are
\* accepted, a negative or a non-integer value is rejected as InvalidInput.
C14_NumberOfVariationsNonNegativeInteger ==
  \A i \in Invocations :
    (inv[i].flow = "adCopy" /\ inv[i].pc \notin {"idle", "called"}
       /\ OtherAdFieldsValid(inv[i].input)) =>
      LET n == Get(inv[i].input, "numberOfVariations")
      IN  (inv[i].error = "InvalidInput") <=> ~(IsInteger(n) /\ n.v >= 0)

\* an SEO input with a string content and no targetKeyword
KeywordAbsent(x) ==
  /\ x.t = "obj"
  /\ ZString(Get(x, "content"))
  /\ Get(x, "targetKeyword") = Undef

\* C15: an SEO input whose targetKeyword is absent passes input validation:
\* the invocation does not signal InvalidInput, it renders the prompt and
\* invokes the model.
C15_AbsentKeywordIsValid ==
  \A i \in Invocations :
    (inv[i].flow = "seo" /\ KeywordAbsent(inv[i].input)
       /\ inv[i].pc \notin {"idle", "called"}) =>
      /\ inv[i].error # "InvalidInput"
      /\ inv[i].pc # "validated" => Rendered(i)
      /\ inv[i].pc \notin {"validated", "rendered"} => inv[i].modelCalls = 1

C15_Witness ==
  \E i \in Invocations :
    /\ inv[i].flow = "seo"
    /\ inv[i].input = Obj([content |-> Str("Ten tips for better sleep")])
    /\ inv[i].pc = "awaiting"
    /\ inv[i].modelCalls = 1
    /\ Rendered(i)

C18_EveryInvocationCompletes ==
  \A i \in Invocations :
    (inv[i].pc = "called") ~>
       \/ inv[i].pc = "returned" /\ ~inv[i].threw
       \/ inv[i].pc = "failed" /\ (inv[i].threw => inv[i].error = "InvocationError")

\* an invocation completed by the failure of its model invocation, the other
\* one completed with a result
C18_Witness ==
  \E i, j \in Invocations :
    /\ inv[i].pc = "failed" /\ inv[i].threw /\ inv[i].error = "InvocationError"
    /\ inv[i].steps = <<"validateInput", "renderPrompt", "invokeModel">>
    /\ inv[j].pc = "returned"

\* text has pat as a substring
Contains(text, pat) ==
  \E k \in 1..(Len(text) - Len(pat) + 1) : SubSeq(text, k, k + Len(pat) - 1) = pat

PromptContains(i, pat) ==
  \E k \in 1..Len(inv[i].prompt) : Contains(inv[i].prompt[k], pat)

\* C19: the tone and the language selected in the dashboard reach the model:
\* for every ad-copy and every social-media submission the handler has
\* passed to its flow, a prompt is rendered for it and contains the literal
\* selected tone and the literal selected language.
C19_ToneAndLanguageReachModel ==
  \A i \in Invocations :
    (inv[i].caller = "dashboard" /\ inv[i].flow \in {"adCopy", "socialMedia"}
       /\ inv[i].pc \in {"returned", "failed"}) =>
      /\ Rendered(i)
      /\ PromptContains(i, Get(inv[i].values, "tone").v)
      /\ PromptContains(i, Get(inv[i].values, "language").v)

\* the same for the social-media panel alone
SocialToneAndLanguageReachModel ==
  \A i \in Invocations :
    (inv[i].caller = "dashboard" /\ inv[i].flow = "socialMedia"
       /\ inv[i].pc \in {"returned", "failed"}) =>
      /\ Rendered(i)
      /\ PromptContains(i, Get(inv[i].values, "tone").v)
      /\ PromptContains(i, Get(inv[i].values, "language").v)

\* C20: in every reachable state of every panel loading = true implies
\* result = null: the panel shows the skeleton (loading), or a result
\* (!loading with a result), or the placeholder (!loading without one), and
\* never the skeleton over a state that holds a result.
C20_LoadingImpliesNoResult ==
  \A p \in Flows : panelState[p].loading => panelState[p].result = Null

\* one panel is pending, with no result, while another shows its result
C20_Witness ==
  \E p, q \in Flows :
    /\ panelState[p].loading /\ panelState[p].result = Null
    /\ \E i \in Invocations : inv[i].flow = p /\ inv[i].caller = "dashboard"
    /\ ShowsResult(q)

\* a flow call of panel p made by a submit handler has settled with pc
SettledCall(i, p, pc) ==
  inv[i].caller = "dashboard" /\ inv[i].flow = p /\ inv[i].pc = pc

\* C21: when a flow call made by a submit handler fails, whatever the kind
\* of the failure, the handler shows the generic error toast of its panel
\* and sets the panel to loading = false, result = null; and once a flow
\* call of a panel has settled, the panel's loading flag is eventually false.
C21_FailureToastAndLoadingCleared ==
  /\ [][\A i \in Invocations, p \in Flows :
          (SettledCall(i, p, "failed") /\ inv'[i].pc = "idle") =>
            /\ toast'.variant = "destructive" /\ toast'.title = "Error"
            /\ toast' = FailureToast(p)
            /\ panelState'[p] = [loading |-> FALSE, result |-> Null]]_vars
  /\ \A p \in Flows :
       (\E i \in Invocations :
          SettledCall(i, p, "returned") \/ SettledCall(i, p, "failed"))
         ~> ~panelState[p].loading

\* the social-media panel after a failed call: error toast, placeholder
C21_Witness ==
  /\ toast = FailureToast("socialMedia")
  /\ panelState["socialMedia"] = [loading |-> FALSE, result |-> Null]
  /\ \A i \in Invocations : inv[i].pc = "idle"
  /\ calls = 1

ForwardedNumberIn1To5 ==
  \A i \in Invocations :
    (inv[i].caller = "dashboard" /\ inv[i].flow = "adCopy") =>
      LET n == Get(inv[i].input, "numberOfVariations")
      IN  ZNumber(n) /\ n.v >= 1 /\ (n.v < 5 \/ n = Num(5))

\* a flow call of panel p made by a submit handler that has not settled
InFlight(i, p) ==
  /\ inv[i].caller = "dashboard" /\ inv[i].flow = p
  /\ inv[i].pc \in {"called", "validated", "rendered", "awaiting", "replied"}

HandlerCompletes(i, p) ==
  /\ SettledCall(i, p, "returned") \/ SettledCall(i, p, "failed")
  /\ inv'[i].pc = "idle"

HandlerStarts(p) ==
  \E i \in Invocations :
    /\ inv[i].pc = "idle" /\ inv'[i].pc = "called"
    /\ inv'[i].caller = "dashboard" /\ inv'[i].flow = p

\* C25: starting a submission discards the panel's previous result: when
\* the submit handler runs the panel holds no result, a failed submission
\* leaves the placeholder, and a result appears in a panel only as the
\* value returned by a call of that panel that has just settled.
C25_SubmissionDiscardsPreviousResult ==
  [][\A p \in Flows :
       /\ HandlerStarts(p) => panelState'[p].result = Null /\ ~ShowsResult(p)'
       /\ (\E i \in Invocations : HandlerCompletes(i, p) /\ inv[i].pc = "failed") =>
            panelState'[p] = [loading |-> FALSE, result |-> Null]
       /\ (panelState'[p].result # Null /\ panelState'[p].result # panelState[p].result) =>
            \E i \in Invocations :
              /\ HandlerCompletes(i, p) /\ inv[i].pc = "returned"
              /\ panelState'[p].result = inv[i].result]_vars

\* the SEO panel is pending for the second press of its button, nothing has
\* failed, and no result is left in it
C25_Witness ==
  /\ panelState["seo"] = [loading |-> TRUE, result |-> Null]
  /\ \E i \in Invocations : InFlight(i, "seo") /\ ~inv[i].superseded
  /\ Cardinality({i \in Invocations : inv[i].pc # "idle"}) = 1
  /\ calls = 2
  /\ toast = NoToast
  /\ \A p \in Flows : submitting[p] = <<>>

\* C26: the three panels are independent: the start of a submission, a
\* success and a failure in one panel leave the loading flag and the result
\* of the other two panels unchanged, also while calls of several panels are
\* in flight; no step changes the state of two panels.
C26_PanelsIndependent ==
  [][\A p \in Flows :
       ( \/ HandlerStarts(p)
         \/ \E i \in Invocations : HandlerCompletes(i, p)
         \/ panelState'[p] # panelState[p] ) =>
         \A q \in Flows \ {p} : panelState'[q] = panelState[q]]_vars

\* the call of one panel has failed and its handler is about to resume
\* while another panel is pending with its call awaiting the model
C26_Witness ==
  \E p, q \in Flows, i, j \in Invocations :
    /\ p # q
    /\ SettledCall(i, p, "failed") /\ panelState[p].loading
    /\ InFlight(j, q) /\ inv[j].pc = "awaiting" /\ panelState[q].loading

====
